---- MODULE Spec2Model ----
(***************************************************************************)
(* Model of the two README generators of the repository:                   *)
(*   scripts/update_readme.py      (class ProjectAnalyzer)                 *)
(*   scripts/generate_diagrams.py  (class InfrastructureDiagramGenerator)  *)
(*                                                                         *)
(* Text.  A Python str that the code only concatenates is a TLA+ string.   *)
(* A str the code inspects character by character (names that are          *)
(* sanitised, file names tested with endswith) is a sequence of            *)
(* one-character strings, turned into a string by Join when it is          *)
(* formatted into a line.  The README is a sequence of text pieces whose   *)
(* concatenation is the file; a piece is a whitespace character, or a      *)
(* piece that ends in a non-whitespace character.  The literal             *)
(* "<!-- BEGIN AUTO-GENERATED -->" is the two pieces of MARKER, so that a  *)
(* README can hold half a marker.  Glyphs outside ASCII (the emoji of the  *)
(* headings) are left out of the string literals.                          *)
(*                                                                         *)
(* Parsed data.  What hcl2.loads and yaml.safe_load_all return is a Python *)
(* value: [tag, items] with tag "dict" (items: sequence of [k, v], in      *)
(* insertion order), "list" (items: sequence of values), "str" (items:     *)
(* the characters) or "none".                                              *)
(*                                                                         *)
(* Exceptions.  An operator that can raise returns [exc, val]: exc is ""   *)
(* when it returns val, and the exception's class name when it raises.     *)
(***************************************************************************)
EXTENDS Integers, Sequences, FiniteSets, TLC

(* ------------------------------------------------------------------ text *)

RECURSIVE Join(_)
Join(cs) == IF cs = <<>> THEN "" ELSE Head(cs) \o Join(Tail(cs))

Whitespace == {" ", "\n", "\t"}

MARKER == <<"<!-- BEGIN", " AUTO-GENERATED -->">>

DEFAULT_TITLE == <<"# GKE Cluster with Terraform", "\n", "\n">>

IMAGE_REF == "![Infrastructure Diagram](docs/diagrams/infrastructure.png)"

K8S_HEADER == "## Kubernetes Resources"

(* The backquote of the Markdown the generators write.  A TLA+ string      *)
(* literal cannot hold that character; the apostrophe stands for it.       *)
BQ == "'"

(* Index of the first occurrence of sub in s, 0 when there is none. *)
Find(s, sub) ==
    LET hits == {i \in 1..(Len(s) - Len(sub) + 1) :
                    SubSeq(s, i, i + Len(sub) - 1) = sub}
    IN  IF hits = {} THEN 0 ELSE CHOOSE i \in hits : \A j \in hits : i <= j

Contains(s, sub) == Find(s, sub) # 0

(* str.split(sep)[0]: the text before the first occurrence of sep. *)
SplitFirst(s, sep) ==
    IF Contains(s, sep) THEN SubSeq(s, 1, Find(s, sep) - 1) ELSE s

(* str.rstrip(): drop the trailing whitespace. *)
RECURSIVE RStrip(_)
RStrip(s) ==
    IF s # <<>> /\ s[Len(s)] \in Whitespace
    THEN RStrip(SubSeq(s, 1, Len(s) - 1))
    ELSE s

(* str.replace(old, new) for one-character old and new. *)
Replace(cs, old, new) ==
    [i \in DOMAIN cs |-> IF cs[i] = old THEN new ELSE cs[i]]

(* str.endswith(suffix) *)
EndsWith(cs, suffix) ==
    /\ Len(cs) >= Len(suffix)
    /\ SubSeq(cs, Len(cs) - Len(suffix) + 1, Len(cs)) = suffix

(* --------------------------------------------------------- Python values *)

PyStr(cs) == [tag |-> "str", items |-> cs]
PyNone == [tag |-> "none", items |-> <<>>]
PyList(xs) == [tag |-> "list", items |-> xs]
PyDict(kvs) == [tag |-> "dict", items |-> kvs]
KV(key, value) == [k |-> key, v |-> value]
EmptyDict == PyDict(<<>>)

IsDict(v) == v.tag = "dict"
IsList(v) == v.tag = "list"

Ok(v) == [exc |-> "", val |-> v]
Raise(e) == [exc |-> e, val |-> <<>>]

(* key in d *)
HasKey(d, key) == \E i \in DOMAIN d.items : d.items[i].k = key

(* d[key], for a key that is present *)
GetItem(d, key) ==
    d.items[CHOOSE i \in DOMAIN d.items : d.items[i].k = key].v

(* d.get(key, default): a dict has the method, nothing else modelled does *)
DictGet(d, key, default) ==
    IF ~IsDict(d) THEN Raise("AttributeError")
    ELSE IF HasKey(d, key) THEN Ok(GetItem(d, key))
    ELSE Ok(default)

(* list(d.keys())[0] *)
FirstKey(d) ==
    IF ~IsDict(d) THEN Raise("AttributeError")
    ELSE IF d.items = <<>> THEN Raise("IndexError")
    ELSE Ok(d.items[1].k)

(* for x in v: the values the loop variable takes *)
Iterate(v) ==
    CASE v.tag = "list" -> Ok(v.items)
      [] v.tag = "dict" -> Ok([i \in DOMAIN v.items |-> PyStr(v.items[i].k)])
      [] v.tag = "str"  -> Ok([i \in DOMAIN v.items |-> PyStr(<<v.items[i]>>)])
      [] v.tag = "none" -> Raise("TypeError")

(* f"{v}" of a str or of None *)
Format(v) ==
    CASE v.tag = "str"  -> v.items
      [] v.tag = "none" -> <<"N", "o", "n", "e">>

(* The results of a loop body run on each element in turn: the first       *)
(* exception ends the loop, otherwise the appended items in order.         *)
RECURSIVE Collect(_)
Collect(rs) ==
    IF rs = <<>> THEN Ok(<<>>)
    ELSE IF Head(rs).exc # "" THEN Head(rs)
    ELSE LET rest == Collect(Tail(rs))
         IN  IF rest.exc # "" THEN rest ELSE Ok(Head(rs).val \o rest.val)

(* ------------------------------------------------------------ dict keys *)

k_resource == <<"r", "e", "s", "o", "u", "r", "c", "e">>
k_variable == <<"v", "a", "r", "i", "a", "b", "l", "e">>
k_output == <<"o", "u", "t", "p", "u", "t">>
k_type == <<"t", "y", "p", "e">>
k_kind == <<"k", "i", "n", "d">>
k_metadata == <<"m", "e", "t", "a", "d", "a", "t", "a">>
k_name == <<"n", "a", "m", "e">>
s_any == <<"a", "n", "y">>
s_Unknown == <<"U", "n", "k", "n", "o", "w", "n">>
s_unnamed == <<"u", "n", "n", "a", "m", "e", "d">>
ext_tf == <<".", "t", "f">>
ext_yaml == <<".", "y", "a", "m", "l">>
ext_yml == <<".", "y", "m", "l">>

(* ----------------------------------------------------- the file system *)
(* A directory entry: [name, isdir, valid, parsed, files].  For a file,    *)
(* valid says whether its parser accepts the text and parsed is what the   *)
(* parser returns then; for a directory, files are its entries in listing  *)
(* order.  Directories below a module directory are not modelled.          *)

File(name, parsed) ==
    [name |-> name, isdir |-> FALSE, valid |-> TRUE, parsed |-> parsed, files |-> <<>>]
BadFile(name) ==
    [name |-> name, isdir |-> FALSE, valid |-> FALSE, parsed |-> PyNone, files |-> <<>>]
Dir(name, files) ==
    [name |-> name, isdir |-> TRUE, valid |-> TRUE, parsed |-> PyNone, files |-> files]

(* --------------------------------------------------- Terraform: parsing *)

(* hcl2.loads raises on a malformed file; the handler returns {} *)
parse_terraform_file(file) == IF file.valid THEN file.parsed ELSE EmptyDict

analyze_terraform_file(file) == IF file.valid THEN file.parsed ELSE EmptyDict

(* ------------------------------------------------ Terraform: extraction *)

ResourceId(resource_type, instance_name) ==
    resource_type \o <<".">> \o instance_name

(* for instance in instances: f"{resource_type}.{list(instance.keys())[0]}" *)
DictShapeInstances(resource_type, instances) ==
    LET it == Iterate(instances)
    IN  IF it.exc # "" THEN it
        ELSE Collect([j \in DOMAIN it.val |->
                 LET fk == FirstKey(it.val[j])
                 IN  IF fk.exc # "" THEN fk
                     ELSE Ok(<<ResourceId(resource_type, fk.val)>>)])

(* one resource_item of the list shape *)
ListShapeItem(resource_item) ==
    IF ~IsDict(resource_item) THEN Ok(<<>>)
    ELSE LET fk == FirstKey(resource_item)
         IN  IF fk.exc # "" THEN fk
             ELSE LET resource_type == fk.val
                      instances == GetItem(resource_item, resource_type)
                  IN  IF ~IsList(instances) THEN Ok(<<>>)
                      ELSE Collect([j \in DOMAIN instances.items |->
                               LET instance == instances.items[j]
                               IN  IF ~IsDict(instance) THEN Ok(<<>>)
                                   ELSE LET ik == FirstKey(instance)
                                        IN  IF ik.exc # "" THEN ik
                                            ELSE Ok(<<ResourceId(resource_type, ik.val)>>)])

(* The resource identifiers of one parsed file. *)
ExtractResources(config) ==
    IF ~HasKey(config, k_resource) THEN Ok(<<>>)
    ELSE LET r == GetItem(config, k_resource)
         IN  IF IsDict(r)
             THEN Collect([i \in DOMAIN r.items |->
                      DictShapeInstances(r.items[i].k, r.items[i].v)])
             ELSE IF IsList(r)
             THEN Collect([i \in DOMAIN r.items |-> ListShapeItem(r.items[i])])
             ELSE Ok(<<>>)

(* The first key of every dict of a list; other items are passed over. *)
FirstKeys(v) ==
    Collect([i \in DOMAIN v.items |->
        IF ~IsDict(v.items[i]) THEN Ok(<<>>)
        ELSE LET fk == FirstKey(v.items[i])
             IN  IF fk.exc # "" THEN fk ELSE Ok(<<fk.val>>)])

(* The names declared under config[key], as both generators collect the   *)
(* outputs and generate_diagrams.py the variables.                         *)
ExtractNames(config, key) ==
    IF ~HasKey(config, key) THEN Ok(<<>>)
    ELSE LET d == GetItem(config, key)
         IN  IF IsDict(d) THEN Ok([i \in DOMAIN d.items |-> d.items[i].k])
             ELSE IF IsList(d) THEN FirstKeys(d)
             ELSE Ok(<<>>)

ExtractVariables(config) == ExtractNames(config, k_variable)

ExtractOutputs(config) == ExtractNames(config, k_output)

(* The bullet of a variable: its name in backquotes, then its type in      *)
(* parentheses, the type being var_config.get('type', 'any').              *)
VariableBullet(var_name, var_config) ==
    LET t == DictGet(var_config, k_type, PyStr(s_any))
    IN  IF t.exc # "" THEN t
        ELSE Ok(<<"- " \o BQ \o Join(var_name) \o BQ \o " (" \o Join(Format(t.val)) \o ")">>)

(* The variable bullets of one parsed file (update_readme.py). *)
VariableBullets(config) ==
    IF ~HasKey(config, k_variable) THEN Ok(<<>>)
    ELSE LET d == GetItem(config, k_variable)
         IN  IF IsDict(d)
             THEN Collect([i \in DOMAIN d.items |->
                      VariableBullet(d.items[i].k, d.items[i].v)])
             ELSE IF IsList(d)
             THEN Collect([i \in DOMAIN d.items |->
                      IF ~IsDict(d.items[i]) THEN Ok(<<>>)
                      ELSE LET fk == FirstKey(d.items[i])
                           IN  IF fk.exc # "" THEN fk
                               ELSE VariableBullet(fk.val, GetItem(d.items[i], fk.val))])
             ELSE Ok(<<>>)

Bullet(cs) == "- " \o BQ \o Join(cs) \o BQ

Bullets(names) == [i \in DOMAIN names |-> Bullet(names[i])]

(* One file's contribution to a module record of generate_diagrams.py:    *)
(* resources, then variables, then outputs; the first exception ends it.  *)
FileRecord(config) ==
    LET rs == ExtractResources(config)
        vs == ExtractVariables(config)
        os == ExtractOutputs(config)
        e  == IF rs.exc # "" THEN rs.exc ELSE IF vs.exc # "" THEN vs.exc ELSE os.exc
    IN  [exc |-> e, resources |-> rs.val, variables |-> vs.val, outputs |-> os.val]

(* One file's bullets in generate_module_documentation. *)
FileBullets(config) ==
    LET rs == ExtractResources(config)
        vs == VariableBullets(config)
        os == ExtractOutputs(config)
        e  == IF rs.exc # "" THEN rs.exc ELSE IF vs.exc # "" THEN vs.exc ELSE os.exc
    IN  [exc |-> e, resources |-> Bullets(rs.val), variables |-> vs.val,
         outputs |-> Bullets(os.val)]

(* The records of the files of a module, accumulated in order. *)
RECURSIVE Accumulate(_)
Accumulate(recs) ==
    IF recs = <<>>
    THEN [exc |-> "", resources |-> <<>>, variables |-> <<>>, outputs |-> <<>>]
    ELSE IF Head(recs).exc # "" THEN Head(recs)
    ELSE LET rest == Accumulate(Tail(recs))
         IN  IF rest.exc # "" THEN rest
             ELSE [exc |-> "",
                   resources |-> Head(recs).resources \o rest.resources,
                   variables |-> Head(recs).variables \o rest.variables,
                   outputs |-> Head(recs).outputs \o rest.outputs]

TfFiles(files) ==
    SelectSeq(files, LAMBDA f : ~f.isdir /\ EndsWith(f.name, ext_tf))

(* ------------------------------ generate_diagrams.py: Terraform modules *)

(* ModuleRecord without the handler of parse_terraform_file: a file that   *)
(* does not parse ends the run.                                            *)
ModuleRecord_Propagate(dir) ==
    LET tf == TfFiles(dir.files)
        acc == Accumulate([i \in DOMAIN tf |-> FileRecord(tf[i].parsed)])
    IN  [exc |-> IF \E i \in DOMAIN tf : ~tf[i].valid THEN "Exception" ELSE acc.exc,
         name |-> dir.name, resources |-> acc.resources,
         variables |-> acc.variables, outputs |-> acc.outputs]

(* The record of one module directory: every .tf file of its listing. *)
ModuleRecord(dir) ==
    LET tf == TfFiles(dir.files)
        acc == Accumulate([i \in DOMAIN tf |-> FileRecord(parse_terraform_file(tf[i]))])
    IN  [exc |-> acc.exc, name |-> dir.name, resources |-> acc.resources,
         variables |-> acc.variables, outputs |-> acc.outputs]

(* self.terraform_modules[module] = ...: a key that is present keeps its   *)
(* place and takes the new value, a new key goes last.                     *)
DictSet(d, rec) ==
    IF \E i \in DOMAIN d : d[i].name = rec.name
    THEN [i \in DOMAIN d |-> IF d[i].name = rec.name THEN rec ELSE d[i]]
    ELSE Append(d, rec)

RECURSIVE ModuleRecords(_, _)
ModuleRecords(dirs, acc) ==
    IF dirs = <<>> THEN [exc |-> "", val |-> acc]
    ELSE LET rec == ModuleRecord(Head(dirs))
         IN  IF rec.exc # "" THEN [exc |-> rec.exc, val |-> acc]
             ELSE ModuleRecords(Tail(dirs), DictSet(acc, rec))

(* analyze_terraform_modules taking a missing directory for an empty one *)
analyze_terraform_modules_Lenient(mdir) ==
    ModuleRecords(SelectSeq(mdir.entries, LAMBDA e : e.isdir), <<>>)

(* os.listdir raises when the modules directory does not exist. *)
analyze_terraform_modules(mdir) ==
    IF ~mdir.exists THEN Raise("FileNotFoundError")
    ELSE ModuleRecords(SelectSeq(mdir.entries, LAMBDA e : e.isdir), <<>>)

(* ---------------------------------------- update_readme.py: the project *)

s_modules == <<"m", "o", "d", "u", "l", "e", "s">>

(* terraform_modules[module_name].append(config) *)
AppendConfig(d, module_name, config) ==
    IF \E i \in DOMAIN d : d[i].name = module_name
    THEN [i \in DOMAIN d |->
            IF d[i].name = module_name
            THEN [d[i] EXCEPT !.configs = Append(@, config)] ELSE d[i]]
    ELSE Append(d, [name |-> module_name, configs |-> <<config>>])

RECURSIVE WalkFiles(_, _, _)
WalkFiles(files, module_name, acc) ==
    IF files = <<>> THEN acc
    ELSE WalkFiles(Tail(files), module_name,
                   AppendConfig(acc, module_name, analyze_terraform_file(Head(files))))

RECURSIVE WalkDirs(_, _)
WalkDirs(dirs, acc) ==
    IF dirs = <<>> THEN acc
    ELSE WalkDirs(Tail(dirs), WalkFiles(TfFiles(Head(dirs).files), Head(dirs).name, acc))

(* os.walk of modules/: the files of the directory itself, then each       *)
(* directory below it; a directory that does not exist yields nothing.     *)
WalkModules(mdir) ==
    IF ~mdir.exists THEN <<>>
    ELSE WalkDirs(SelectSeq(mdir.entries, LAMBDA e : e.isdir),
                  WalkFiles(TfFiles(mdir.entries), s_modules, <<>>))

(* ------------------------------------------------------------ manifests *)

IsManifestName(name) == EndsWith(name, ext_yaml) \/ EndsWith(name, ext_yml)

ManifestFiles(kdir) ==
    IF ~kdir.exists THEN <<>>
    ELSE SelectSeq(kdir.entries, LAMBDA f : IsManifestName(f.name))

(* kind = r.get('kind', 'Unknown'); name = r.get('metadata', {}).get('name', 'unnamed') *)
KindAndName(r) ==
    LET kind == DictGet(r, k_kind, PyStr(s_Unknown))
        metadata == DictGet(r, k_metadata, EmptyDict)
        name == DictGet(metadata.val, k_name, PyStr(s_unnamed))
    IN  IF name.exc # "" THEN name
        ELSE Ok(<<[kind |-> kind.val, name |-> name.val]>>)

(* The records of the documents that are mappings. *)
ManifestRecords(docs) ==
    Collect([i \in DOMAIN docs |->
        IF IsDict(docs[i]) THEN KindAndName(docs[i]) ELSE Ok(<<>>)])

(* generate_diagrams.py: a file whose documents cannot be loaded or        *)
(* extracted is warned about and gets no entry.                            *)
RECURSIVE analyze_kubernetes_resources(_)
analyze_kubernetes_resources(files) ==
    IF files = <<>> THEN <<>>
    ELSE LET f == Head(files)
             rest == analyze_kubernetes_resources(Tail(files))
             recs == ManifestRecords(f.parsed.items)
         IN  IF f.valid /\ recs.exc = ""
             THEN <<[name |-> f.name, resources |-> recs.val]>> \o rest
             ELSE rest

(* update_readme.py: list(yaml.safe_load_all(f)), or {} with a warning *)
analyze_kubernetes_manifests(file) ==
    IF file.valid THEN file.parsed ELSE EmptyDict

AnalyzeManifests(files) ==
    [i \in DOMAIN files |->
        [name |-> files[i].name, resources |-> analyze_kubernetes_manifests(files[i])]]

(* ------------------------------------------------------------ rendering *)

NL == "\n"

Line(text) == <<text, NL>>

RECURSIVE Flatten(_)
Flatten(seqs) == IF seqs = <<>> THEN <<>> ELSE Head(seqs) \o Flatten(Tail(seqs))

(* "\n".join(lines) *)
JoinLines(lines) ==
    Flatten([i \in DOMAIN lines |-> IF i = 1 THEN <<lines[i]>> ELSE <<NL, lines[i]>>])

(* A bullet group of generate_module_documentation; nothing when empty. *)
BulletGroup(title, bullets) ==
    IF bullets = <<>> THEN <<>>
    ELSE Line(title) \o JoinLines(bullets) \o <<NL, NL>>

Heading3(name) == <<"### " \o Join(name), NL, NL>>

(* The section of one module in generate_module_documentation. *)
ModuleDoc(m) ==
    LET b == Accumulate([i \in DOMAIN m.configs |-> FileBullets(m.configs[i])])
    IN  IF b.exc # "" THEN Raise(b.exc)
        ELSE Ok(Heading3(m.name)
                \o BulletGroup("**Resources:**", b.resources)
                \o BulletGroup("**Variables:**", b.variables)
                \o BulletGroup("**Outputs:**", b.outputs))

generate_module_documentation(modules) ==
    LET docs == Collect([i \in DOMAIN modules |-> ModuleDoc(modules[i])])
    IN  IF docs.exc # "" THEN docs
        ELSE Ok(<<"## Terraform Modules", NL, NL>> \o docs.val)

(* The bullet of one manifest document; other documents give nothing. *)
ResourceLine(resource) ==
    IF ~IsDict(resource) THEN Ok(<<>>)
    ELSE LET kn == KindAndName(resource)
         IN  IF kn.exc # "" THEN kn
             ELSE Ok(Line("- " \o BQ \o Join(Format(kn.val[1].kind)) \o "/"
                          \o Join(Format(kn.val[1].name)) \o BQ))

ManifestDoc(entry) ==
    LET it == Iterate(entry.resources)
        body == Collect([i \in DOMAIN it.val |-> ResourceLine(it.val[i])])
    IN  IF body.exc # "" THEN body
        ELSE Ok(Heading3(entry.name) \o body.val \o <<NL>>)

generate_kubernetes_documentation(k8s) ==
    LET docs == Collect([i \in DOMAIN k8s |-> ManifestDoc(k8s[i])])
    IN  IF docs.exc # "" THEN docs
        ELSE Ok(<<K8S_HEADER, NL, NL>> \o docs.val)

(* A bullet group of InfrastructureDiagramGenerator.update_readme. *)
NameGroup(title, names) ==
    IF names = <<>> THEN <<>>
    ELSE Line(title) \o Flatten([i \in DOMAIN names |-> Line(Bullet(names[i]))]) \o <<NL>>

ModuleSection(modules) ==
    <<"## Terraform Modules", NL, NL>>
    \o Flatten([i \in DOMAIN modules |->
           Heading3(modules[i].name)
           \o NameGroup("**Resources:**", modules[i].resources)
           \o NameGroup("**Variables:**", modules[i].variables)
           \o NameGroup("**Outputs:**", modules[i].outputs)])

KindSlashName(r) == Join(Format(r.kind)) \o "/" \o Join(Format(r.name))

KubernetesSection(k8s) ==
    IF k8s = <<>> THEN <<>>
    ELSE <<K8S_HEADER, NL, NL>>
         \o Flatten([i \in DOMAIN k8s |->
                Heading3(k8s[i].name)
                \o Flatten([j \in DOMAIN k8s[i].resources |->
                       Line("- " \o BQ \o KindSlashName(k8s[i].resources[j]) \o BQ)])
                \o <<NL>>])

(* ------------------------------------------------- the Mermaid diagram *)

(* f"{module}_{resource}".replace('.', '_').replace('-', '_') *)
TerraformNodeId(module, resource) ==
    Replace(Replace(module \o <<"_">> \o resource, ".", "_"), "-", "_")

(* f"k8s_{resource['kind']}_{resource['name']}".replace('-', '_') *)
KubernetesNodeId(resource) ==
    Replace(<<"k", "8", "s", "_">> \o Format(resource.kind) \o <<"_">>
            \o Format(resource.name), "-", "_")

TerraformNodeIds(modules) ==
    Flatten([i \in DOMAIN modules |->
        [j \in DOMAIN modules[i].resources |->
            TerraformNodeId(modules[i].name, modules[i].resources[j])]])

KubernetesNodeIds(k8s) ==
    Flatten([i \in DOMAIN k8s |->
        [j \in DOMAIN k8s[i].resources |-> KubernetesNodeId(k8s[i].resources[j])]])

MermaidLines(modules, k8s) ==
    <<BQ \o BQ \o BQ \o "mermaid", "graph TB", "    subgraph Infrastructure",
      "    A[GKE Cluster] --> B[VPC Network]">>
    \o Flatten([i \in DOMAIN modules |->
           <<"    subgraph " \o Join(modules[i].name)>>
           \o [j \in DOMAIN modules[i].resources |->
                  "        "
                  \o Join(TerraformNodeId(modules[i].name, modules[i].resources[j]))
                  \o "[" \o Join(modules[i].resources[j]) \o "]"]
           \o <<"    end">>])
    \o (IF k8s = <<>> THEN <<>>
        ELSE <<"    subgraph Kubernetes">>
             \o Flatten([i \in DOMAIN k8s |->
                    [j \in DOMAIN k8s[i].resources |->
                        "        " \o Join(KubernetesNodeId(k8s[i].resources[j]))
                        \o "[" \o KindSlashName(k8s[i].resources[j]) \o "]"]])
             \o <<"    end">>)
    \o <<"end", BQ \o BQ \o BQ>>

generate_mermaid_diagram(modules, k8s) == JoinLines(MermaidLines(modules, k8s))

(* ----------------------------------------------------- the section head *)

WARNING_LINE == "> This section is automatically generated. Do not modify manually."

TIMESTAMP_LABEL == "> Last updated: "

(* SectionHead without the rstrip: the blank lines before the marker pile up *)
SectionHead_NoStrip(content, timestamp) ==
    content \o <<NL, NL>> \o MARKER \o <<NL>> \o Line(WARNING_LINE)
    \o <<TIMESTAMP_LABEL, ToString(timestamp), NL, NL>>

(* content.rstrip() + "\n\n", the marker line, the warning, the timestamp *)
SectionHead(content, timestamp) ==
    RStrip(content) \o <<NL, NL>> \o MARKER \o <<NL>> \o Line(WARNING_LINE)
    \o <<TIMESTAMP_LABEL, ToString(timestamp), NL, NL>>

(* PreservedPrefix without the split: the old section is kept as well *)
PreservedPrefix_Whole(content) == content

(* The text kept from the previous README. *)
PreservedPrefix(content) ==
    IF Contains(content, MARKER) THEN SplitFirst(content, MARKER) ELSE content

(* ------------------------------------------------------------ the inputs *)

MaxReadme == 4
MaxRuns == 2

c_t == <<"t">>
c_a == <<"a">>
c_b == <<"b">>
c_a_b == <<"a", "-", "b">>
c_m == <<"m">>
c_my_net == <<"m", "y", "-", "n", "e", "t">>
c_network == <<"n", "e", "t", "w", "o", "r", "k">>
c_vpc_network == <<"v", "p", "c", "_", "n", "e", "t", "w", "o", "r", "k">>
c_main == <<"m", "a", "i", "n">>
c_region == <<"r", "e", "g", "i", "o", "n">>
c_string == <<"s", "t", "r", "i", "n", "g">>
c_network_id == <<"n", "e", "t", "w", "o", "r", "k", "_", "i", "d">>
c_Pod == <<"P", "o", "d">>
c_Service == <<"S", "e", "r", "v", "i", "c", "e">>
c_web_1 == <<"w", "e", "b", "-", "1">>
c_my_app == <<"m", "y", ".", "a", "p", "p">>
f_main_tf == <<"m", "a", "i", "n", ".", "t", "f">>
f_bad_tf == <<"b", "a", "d", ".", "t", "f">>
f_vars_tf == <<"v", "a", "r", "s", ".", "t", "f">>
f_notes_md == <<"n", "o", "t", "e", "s", ".", "m", "d">>
f_app_yaml == <<"a", "p", "p", ".", "y", "a", "m", "l">>
f_svc_yml == <<"s", "v", "c", ".", "y", "m", "l">>
f_bad_yaml == <<"b", "a", "d", ".", "y", "a", "m", "l">>

(* name -> body, for every name *)
Keyed(names) == PyDict([i \in DOMAIN names |-> KV(names[i], EmptyDict)])

(* one single-key mapping name -> body per name *)
Singles(names) == PyList([i \in DOMAIN names |-> PyDict(<<KV(names[i], EmptyDict)>>)])

(* The shapes a 'resource' entry of type t can take. *)
MapOfMaps(t, names) == PyDict(<<KV(t, Keyed(names))>>)
MapOfLists(t, names) == PyDict(<<KV(t, Singles(names))>>)
ListOfMaps(t, names) == PyList(<<PyDict(<<KV(t, Keyed(names))>>)>>)
ListOfLists(t, names) == PyList(<<PyDict(<<KV(t, Singles(names))>>)>>)

Resources(shape) == PyDict(<<KV(k_resource, shape)>>)

TypeString == PyDict(<<KV(k_type, PyStr(c_string))>>)

NetworkConfigList ==
    PyDict(<<KV(k_resource, ListOfLists(c_vpc_network, <<c_main>>)),
             KV(k_variable, PyList(<<PyDict(<<KV(c_region, TypeString)>>)>>)),
             KV(k_output, PyList(<<PyDict(<<KV(c_network_id, EmptyDict)>>)>>))>>)

(* resource "vpc_network" "main" {} as one mapping type -> name -> body *)
NetworkConfigMaps ==
    PyDict(<<KV(k_resource, ListOfMaps(c_vpc_network, <<c_main>>)),
             KV(k_variable, PyList(<<PyDict(<<KV(c_region, TypeString)>>)>>)),
             KV(k_output, PyList(<<PyDict(<<KV(c_network_id, EmptyDict)>>)>>))>>)

NetworkConfigDict ==
    PyDict(<<KV(k_resource, MapOfLists(c_vpc_network, <<c_main>>)),
             KV(k_variable, PyDict(<<KV(c_region, TypeString)>>)),
             KV(k_output, PyDict(<<KV(c_network_id, EmptyDict)>>))>>)

(* a variable without a type, and one whose body is no mapping *)
VarsConfig ==
    PyDict(<<KV(k_variable, PyList(<<PyDict(<<KV(c_region, EmptyDict)>>),
                                     PyDict(<<KV(c_a, TypeString)>>)>>))>>)
OddVarsConfig ==
    PyDict(<<KV(k_variable, PyList(<<PyDict(<<KV(c_region, PyStr(c_string))>>)>>))>>)

Meta(name) == PyDict(<<KV(k_name, name)>>)
Doc(kind, name) == PyDict(<<KV(k_kind, PyStr(kind)), KV(k_metadata, Meta(PyStr(name)))>>)

NoDir == [exists |-> FALSE, entries |-> <<>>]
Entries(es) == [exists |-> TRUE, entries |-> es]

OneModule(name, files) == Entries(<<Dir(name, files)>>)
OneFile(config) == OneModule(c_m, <<File(f_main_tf, config)>>)
Manifests(docs) == Entries(<<File(f_app_yaml, PyList(docs))>>)

Project(m, k) == [modules |-> m, k8s |-> k]

Projects ==
    [ network_list    |-> Project(OneModule(c_network, <<File(f_main_tf, NetworkConfigList)>>), NoDir),
      network_maps    |-> Project(OneModule(c_network, <<File(f_main_tf, NetworkConfigMaps)>>), NoDir),
      network_dict    |-> Project(OneModule(c_network, <<File(f_main_tf, NetworkConfigDict)>>),
                                  Entries(<<File(f_notes_md, PyNone)>>)),
      map_of_maps_2   |-> Project(OneFile(Resources(MapOfMaps(c_t, <<c_a, c_b>>))), NoDir),
      map_of_maps_1   |-> Project(OneFile(Resources(MapOfMaps(c_t, <<c_a>>))), NoDir),
      map_of_lists_2  |-> Project(OneFile(Resources(MapOfLists(c_t, <<c_a, c_b>>))), NoDir),
      list_of_maps_2  |-> Project(OneFile(Resources(ListOfMaps(c_t, <<c_a, c_b>>))), NoDir),
      list_of_lists_2 |-> Project(OneFile(Resources(ListOfLists(c_t, <<c_a, c_b>>))), NoDir),
      list_of_lists_1 |-> Project(OneFile(Resources(ListOfLists(c_t, <<c_a>>))), NoDir),
      malformed_first |-> Project(OneModule(c_m, <<BadFile(f_bad_tf), File(f_notes_md, PyNone),
                                      File(f_main_tf, Resources(ListOfLists(c_t, <<c_a, c_b>>)))>>),
                                  NoDir),
      malformed_last  |-> Project(OneModule(c_m, <<File(f_main_tf, Resources(MapOfLists(c_t, <<c_a>>))),
                                      BadFile(f_bad_tf)>>), NoDir),
      malformed_only  |-> Project(OneModule(c_m, <<BadFile(f_bad_tf)>>), NoDir),
      two_files       |-> Project(Entries(<<File(f_vars_tf, VarsConfig),
                                      Dir(c_my_net, <<File(f_main_tf, Resources(ListOfLists(c_t, <<c_a_b>>))),
                                                     File(f_vars_tf, VarsConfig)>>),
                                      Dir(c_m, <<File(f_notes_md, PyNone)>>)>>), NoDir),
      odd_variable    |-> Project(OneFile(OddVarsConfig), NoDir),
      no_modules_dir  |-> Project(NoDir, Manifests(<<Doc(c_Pod, c_a)>>)),
      empty_modules   |-> Project(Entries(<<>>), Entries(<<>>)),
      k8s_defaults    |-> Project(OneFile(Resources(ListOfLists(c_t, <<c_a>>))),
                             Manifests(<<Doc(c_Pod, c_web_1), PyNone,
                                         PyDict(<<KV(k_metadata, Meta(PyStr(c_a)))>>),
                                         PyDict(<<KV(k_kind, PyStr(c_Service))>>),
                                         PyDict(<<KV(k_kind, PyStr(c_Service)), KV(k_metadata, EmptyDict)>>),
                                         PyStr(c_a)>>)),
      k8s_null_meta   |-> Project(OneFile(EmptyDict),
                             Manifests(<<Doc(c_Pod, c_a),
                                         PyDict(<<KV(k_kind, PyStr(c_Pod)), KV(k_metadata, PyNone)>>)>>)),
      k8s_null_name   |-> Project(OneFile(EmptyDict),
                             Manifests(<<PyDict(<<KV(k_kind, PyStr(c_Pod)),
                                                  KV(k_metadata, Meta(PyNone))>>)>>)),
      k8s_bad_yaml    |-> Project(OneFile(EmptyDict),
                             Entries(<<BadFile(f_bad_yaml), File(f_svc_yml, PyList(<<Doc(c_Service, c_my_app)>>))>>)),
      k8s_only_bad    |-> Project(OneFile(EmptyDict), Entries(<<BadFile(f_bad_yaml)>>)) ]

(* The projects run against every README of the bound. *)
ReadmeProjects == {"network_list"}

Pieces == {"a", " ", NL, MARKER[1], MARKER[2]}

RECURSIVE Texts(_)
Texts(n) ==
    IF n = 0 THEN {<<>>}
    ELSE LET shorter == Texts(n - 1)
         IN  shorter \cup {Append(t, p) : t \in {u \in shorter : Len(u) = n - 1}, p \in Pieces}

Present(text) == [state |-> "present", text |-> text]
Absent == [state |-> "absent", text |-> <<>>]
Unreadable == [state |-> "unreadable", text |-> <<"a">>]

(* The READMEs every project is run against. *)
FewReadmes ==
    {Absent, Unreadable, Present(<<"a", NL>> \o MARKER \o <<NL, "a">>)}

Variants == {"update_readme", "generate_diagrams"}

ToolOutcomes == {"ok", "nonzero", "missing"}

(* The outcomes run against every README of the bound. *)
ReadmeTools == {"ok", "missing"}

(* ------------------------------------------------------------- the state *)

VARIABLES
    variant,               \* which script runs
    project,               \* the source tree: a field of Projects, never written
    tool,                  \* what running terraform-visual ends in
    readme,                \* README.md: [state, text]
    pc,                    \* the statement the run is at
    content,               \* update_readme's local
    new_content,           \* update_readme's local
    terraform_modules,     \* self.terraform_modules
    kubernetes_resources,  \* self.kubernetes_resources
    node_ids,              \* the node identifiers the Mermaid diagram holds
    exc,                   \* the exception that ended the run, "" when none
    failedAt,              \* the statement that raised it
    now,                   \* datetime.now(), to the second
    run,                   \* the number of this run
    before                 \* README.md as it was when each run started

vars == <<variant, project, tool, readme, pc, content, new_content, terraform_modules,
          kubernetes_resources, node_ids, exc, failedAt, now, run, before>>

ModulesDir == Projects[project].modules
K8sDir == Projects[project].k8s

IsA == variant = "update_readme"
IsB == variant = "generate_diagrams"

FirstStatement(v) == IF v = "update_readme" THEN "read" ELSE "analyze_tf"

Init ==
    /\ variant \in Variants
    /\ \/ /\ project \in DOMAIN Projects
          /\ tool \in ToolOutcomes
          /\ readme \in FewReadmes
       \/ /\ project \in ReadmeProjects
          /\ tool \in ReadmeTools
          /\ readme \in {Present(t) : t \in Texts(MaxReadme)}
    /\ pc = FirstStatement(variant)
    /\ content = <<>>
    /\ new_content = <<>>
    /\ terraform_modules = <<>>
    /\ kubernetes_resources = <<>>
    /\ node_ids = <<>>
    /\ exc = ""
    /\ failedAt = ""
    /\ now = 1
    /\ run = 1
    /\ before = <<readme>>

Inputs == <<variant, project, tool, now, run, before>>

(* An exception nothing catches: the run ends at this statement. *)
Fail(e) ==
    /\ pc' = "failed"
    /\ exc' = e
    /\ failedAt' = pc

Goto(next) ==
    /\ pc' = next
    /\ UNCHANGED <<exc, failedAt>>

(* read_readme catching every exception of open and read *)
read_readme_CatchAll(file) ==
    IF file.state = "present" THEN Ok(file.text) ELSE Ok(DEFAULT_TITLE)

(* open(readme_path, 'r') and f.read(): of what open can raise, only       *)
(* FileNotFoundError is caught.                                            *)
read_readme(file) ==
    CASE file.state = "present"    -> Ok(file.text)
      [] file.state = "absent"     -> Ok(DEFAULT_TITLE)
      [] file.state = "unreadable" -> Raise("PermissionError")

ReadReadme ==
    /\ pc = "read"
    /\ LET r == read_readme(readme)
       IN  IF r.exc # ""
           THEN Fail(r.exc) /\ UNCHANGED content
           ELSE content' = PreservedPrefix(r.val) /\ Goto(IF IsA THEN "analyze" ELSE "header")
    /\ UNCHANGED <<Inputs, readme, new_content, terraform_modules, kubernetes_resources,
                   node_ids>>

(* ProjectAnalyzer.analyze_project *)
AnalyzeProject ==
    /\ pc = "analyze"
    /\ terraform_modules' = WalkModules(ModulesDir)
    /\ kubernetes_resources' = AnalyzeManifests(ManifestFiles(K8sDir))
    /\ Goto("header")
    /\ UNCHANGED <<Inputs, readme, content, new_content, node_ids>>

(* InfrastructureDiagramGenerator.analyze_terraform_modules *)
AnalyzeTerraformModules ==
    /\ pc = "analyze_tf"
    /\ LET r == analyze_terraform_modules(ModulesDir)
       IN  /\ terraform_modules' = r.val
           /\ IF r.exc # "" THEN Fail(r.exc) ELSE Goto("analyze_k8s")
    /\ UNCHANGED <<Inputs, readme, content, new_content, kubernetes_resources, node_ids>>

(* InfrastructureDiagramGenerator.analyze_kubernetes_resources *)
AnalyzeKubernetesResources ==
    /\ pc = "analyze_k8s"
    /\ kubernetes_resources' = analyze_kubernetes_resources(ManifestFiles(K8sDir))
    /\ Goto("read")
    /\ UNCHANGED <<Inputs, readme, content, new_content, terraform_modules, node_ids>>

(* WriteHead with the README opened for writing before the sections are    *)
(* rendered: the head is in the file as soon as it is built.               *)
WriteHead_Early ==
    /\ pc = "header"
    /\ new_content' = SectionHead(content, now)
                      \o (IF IsB THEN <<"## Infrastructure Diagrams", NL, NL>> ELSE <<>>)
    /\ readme' = Present(new_content')
    /\ Goto(IF IsA THEN "diagram" ELSE "mermaid")
    /\ UNCHANGED <<Inputs, content, terraform_modules, kubernetes_resources, node_ids>>

(* new_content = content.rstrip() + "\n\n" and the three lines after it;   *)
(* generate_diagrams.py adds the heading of its diagrams section.          *)
WriteHead ==
    /\ pc = "header"
    /\ new_content' = SectionHead(content, now)
                      \o (IF IsB THEN <<"## Infrastructure Diagrams", NL, NL>> ELSE <<>>)
    /\ Goto(IF IsA THEN "diagram" ELSE "mermaid")
    /\ UNCHANGED <<Inputs, readme, content, terraform_modules, kubernetes_resources,
                   node_ids>>

(* new_content += "### Infrastructure Overview\n" + the diagram + "\n\n" *)
MermaidDiagram ==
    /\ pc = "mermaid"
    /\ new_content' = new_content \o Line("### Infrastructure Overview")
                      \o generate_mermaid_diagram(terraform_modules, kubernetes_resources)
                      \o <<NL, NL>>
    /\ node_ids' = TerraformNodeIds(terraform_modules)
                   \o KubernetesNodeIds(kubernetes_resources)
    /\ Goto("diagram")
    /\ UNCHANGED <<Inputs, readme, content, terraform_modules, kubernetes_resources>>

(* ProjectAnalyzer.generate_infrastructure_diagram: the section, or "" *)
generate_infrastructure_diagram(outcome) ==
    IF outcome = "ok"
    THEN <<"## Infrastructure Diagram", NL, NL, IMAGE_REF, NL, NL>>
    ELSE <<>>

(* generate_terraform_visual_diagram returning True from its handler too *)
generate_terraform_visual_diagram_True(outcome) == TRUE

(* InfrastructureDiagramGenerator.generate_terraform_visual_diagram *)
generate_terraform_visual_diagram(outcome) == outcome = "ok"

InfrastructureDiagram ==
    /\ pc = "diagram"
    /\ new_content' =
          IF IsA THEN new_content \o generate_infrastructure_diagram(tool)
          ELSE IF generate_terraform_visual_diagram(tool)
               THEN new_content \o Line("### Detailed Infrastructure View")
                    \o <<IMAGE_REF, NL, NL>>
               ELSE new_content
    /\ Goto("moduledoc")
    /\ UNCHANGED <<Inputs, readme, content, terraform_modules, kubernetes_resources,
                   node_ids>>

ModuleDocumentation ==
    /\ pc = "moduledoc"
    /\ IF IsA
       THEN LET doc == generate_module_documentation(terraform_modules)
            IN  IF doc.exc # ""
                THEN Fail(doc.exc) /\ UNCHANGED new_content
                ELSE new_content' = new_content \o doc.val /\ Goto("k8sdoc")
       ELSE /\ new_content' = new_content \o ModuleSection(terraform_modules)
            /\ Goto("k8sdoc")
    /\ UNCHANGED <<Inputs, readme, content, terraform_modules, kubernetes_resources,
                   node_ids>>

KubernetesDocumentation ==
    /\ pc = "k8sdoc"
    /\ IF IsA
       THEN LET doc == generate_kubernetes_documentation(kubernetes_resources)
            IN  IF doc.exc # ""
                THEN Fail(doc.exc) /\ UNCHANGED new_content
                ELSE new_content' = new_content \o doc.val /\ Goto("write")
       ELSE /\ new_content' = new_content \o KubernetesSection(kubernetes_resources)
            /\ Goto("write")
    /\ UNCHANGED <<Inputs, readme, content, terraform_modules, kubernetes_resources,
                   node_ids>>

(* with open(readme_path, 'w') as f: f.write(new_content) *)
WriteReadme ==
    /\ pc = "write"
    /\ readme' = Present(new_content)
    /\ Goto("done")
    /\ UNCHANGED <<Inputs, content, new_content, terraform_modules, kubernetes_resources,
                   node_ids>>

(* The script is started again: a new process, a new object, the same      *)
(* source tree, the clock at the same second or a later one.               *)
NextRun ==
    /\ pc \in {"done", "failed"}
    /\ run < MaxRuns
    /\ run' = run + 1
    /\ now' \in {now, now + 1}
    /\ before' = Append(before, readme)
    /\ pc' = FirstStatement(variant)
    /\ content' = <<>>
    /\ new_content' = <<>>
    /\ terraform_modules' = <<>>
    /\ kubernetes_resources' = <<>>
    /\ node_ids' = <<>>
    /\ exc' = ""
    /\ failedAt' = ""
    /\ UNCHANGED <<variant, project, tool, readme>>

Next ==
    \/ ReadReadme
    \/ AnalyzeProject
    \/ AnalyzeTerraformModules
    \/ AnalyzeKubernetesResources
    \/ WriteHead
    \/ MermaidDiagram
    \/ InfrastructureDiagram
    \/ ModuleDocumentation
    \/ KubernetesDocumentation
    \/ WriteReadme
    \/ NextRun

Spec == Init /\ [][Next]_vars

(* ------------------------------------------------------------ the claims *)

Ended == pc \in {"done", "failed"}

IsPrefix(p, t) == Len(p) <= Len(t) /\ SubSeq(t, 1, Len(p)) = p

(* The text from the first marker on; nothing when there is no marker. *)
GeneratedSection(text) ==
    IF Contains(text, MARKER) THEN SubSeq(text, Find(text, MARKER), Len(text)) ELSE <<>>

(* The text without what follows "> Last updated: " on the timestamp line. *)
WithoutTimestamp(text) ==
    LET i == Find(text, <<TIMESTAMP_LABEL>>)
    IN  IF i = 0 THEN text ELSE SubSeq(text, 1, i) \o SubSeq(text, i + 2, Len(text))

(* C1: a run that follows another run of the same script on the same       *)
(* source tree, with the same outcome of terraform-visual, leaves the       *)
(* README as the earlier run left it, but for the text of the timestamp     *)
(* line; the text before the marker is the same after both.                 *)
C1_Idempotent ==
    (run >= 2 /\ Ended) =>
        /\ readme.state = before[run].state
        /\ WithoutTimestamp(readme.text) = WithoutTimestamp(before[run].text)
        /\ SplitFirst(readme.text, MARKER) = SplitFirst(before[run].text, MARKER)

(* Two runs have written the README, at different seconds, the first one    *)
(* over a README that had whitespace before its marker.                     *)
C1_Witness ==
    /\ run = 2 /\ pc = "done"
    /\ readme.text # before[2].text
    /\ before[1].state = "present"
    /\ Contains(before[1].text, <<NL>> \o MARKER)
    /\ SplitFirst(readme.text, MARKER) # <<NL, NL>>

(* The pieces only a hand-written README holds. *)
UserPieces == {"a", " ", MARKER[1], MARKER[2]}

(* s is t without its trailing whitespace *)
IsStripped(s, t) ==
    /\ IsPrefix(s, t)
    /\ s = <<>> \/ s[Len(s)] \notin Whitespace
    /\ \A i \in (Len(s) + 1)..Len(t) : t[i] \in Whitespace

(* C2: the written README is the text the previous README had before its   *)
(* first marker (all of it when it had none), without its trailing          *)
(* whitespace, then two newlines, then the marker line; and no piece of     *)
(* the previous README past that marker is in what follows.                 *)
C2_PrefixPreserved ==
    (pc = "done" /\ before[run].state = "present") =>
        LET prev == before[run].text
            at == Find(prev, MARKER)
            prefix == IF at = 0 THEN prev ELSE SubSeq(prev, 1, at - 1)
            n == Find(readme.text, <<NL, NL>> \o MARKER \o <<NL>>)
        IN  /\ n # 0
            /\ IsStripped(SubSeq(readme.text, 1, n - 1), prefix)
            /\ \A i \in (n + 2 + Len(MARKER))..Len(readme.text) :
                   readme.text[i] \notin UserPieces

(* A README with whitespace before its marker and text after it has been   *)
(* rewritten.                                                               *)
C2_Witness ==
    /\ pc = "done"
    /\ before[run].state = "present"
    /\ LET prev == before[run].text
           at == Find(prev, MARKER)
       IN  /\ at > 2
           /\ prev[at - 1] \in Whitespace
           /\ \E i \in (at + Len(MARKER))..Len(prev) : prev[i] = "a"

(* The .tf files of the module directories, each with its module's name. *)
ModuleFiles ==
    LET dirs == SelectSeq(ModulesDir.entries, LAMBDA e : e.isdir)
    IN  Flatten([i \in DOMAIN dirs |->
            LET tf == TfFiles(dirs[i].files)
            IN  [j \in DOMAIN tf |-> [module |-> dirs[i].name, file |-> tf[j]]]])

(* name -> body: a mapping whose values are mappings *)
IsKeyed(v) == IsDict(v) /\ \A i \in DOMAIN v.items : IsDict(v.items[i].v)

(* a sequence of single-key mappings *)
IsSingles(v) ==
    IsList(v) /\ \A i \in DOMAIN v.items : IsDict(v.items[i]) /\ Len(v.items[i].items) = 1

(* The two shapes of a 'resource' entry: type -> instance name -> body,    *)
(* and a sequence of single-key mappings from a type to its instances,      *)
(* the instances being keyed by name or a sequence of single-key mappings. *)
IsMappingOfMappings(r) ==
    IsDict(r) /\ \A i \in DOMAIN r.items : IsKeyed(r.items[i].v)

IsSequenceOfMappings(r) ==
    IsSingles(r) /\ \A i \in DOMAIN r.items :
        IsKeyed(r.items[i].items[1].v) \/ IsSingles(r.items[i].items[1].v)

InstanceNames(instances) ==
    IF IsDict(instances) THEN [j \in DOMAIN instances.items |-> instances.items[j].k]
    ELSE [j \in DOMAIN instances.items |-> instances.items[j].items[1].k]

(* "t.a", "t.b", ...: a type's instances in the order they are declared *)
DeclaredOfType(t, instances) ==
    LET names == InstanceNames(instances)
    IN  [j \in DOMAIN names |-> t \o <<".">> \o names[j]]

DeclaredIds(r) ==
    IF IsDict(r)
    THEN Flatten([i \in DOMAIN r.items |-> DeclaredOfType(r.items[i].k, r.items[i].v)])
    ELSE Flatten([i \in DOMAIN r.items |->
             DeclaredOfType(r.items[i].items[1].k, r.items[i].items[1].v)])

(* The projects of one module of one .tf file, whose 'resource' entry has  *)
(* one of the two shapes.                                                   *)
OneShapedFile ==
    /\ Len(ModuleFiles) = 1
    /\ ModuleFiles[1].file.valid
    /\ HasKey(ModuleFiles[1].file.parsed, k_resource)
    /\ LET r == GetItem(ModuleFiles[1].file.parsed, k_resource)
       IN  IsMappingOfMappings(r) \/ IsSequenceOfMappings(r)

(* C3: for a 'resource' entry of either shape, the extractor yields the    *)
(* identifiers "<type>.<instance name>" of the declared instances, in the   *)
(* order of declaration: generate_diagrams.py as the module's resources,    *)
(* update_readme.py as the bullets of the module's section.                 *)
C3_ResourceIds ==
    OneShapedFile =>
        LET ids == DeclaredIds(GetItem(ModuleFiles[1].file.parsed, k_resource))
        IN  /\ failedAt \notin {"analyze_tf", "moduledoc"}
            /\ (IsB /\ pc \notin {"analyze_tf", "failed"}) =>
                   terraform_modules[1].resources = ids
            /\ (IsA /\ pc \in {"k8sdoc", "write", "done"}) =>
                   Contains(new_content,
                            <<"**Resources:**", NL>> \o JoinLines(Bullets(ids)) \o <<NL, NL>>)

(* C4: modules/network with one file declaring resource vpc_network.main,  *)
(* variable region of type string and output network_id, and no manifest    *)
(* file: the written section has the three bullets and no Kubernetes        *)
(* heading.                                                                 *)
C4_EndToEnd ==
    (project \in {"network_list", "network_maps", "network_dict"} /\ pc = "done") =>
        LET section == GeneratedSection(readme.text)
            Has(piece) == \E i \in DOMAIN section : section[i] = piece
        IN  /\ Has("- " \o BQ \o "vpc_network.main" \o BQ)
            /\ Has("- " \o BQ \o "region" \o BQ \o " (string)")
            /\ Has("- " \o BQ \o "network_id" \o BQ)
            /\ ~Has(K8S_HEADER)

(* The manifest files that load, and their documents that are mappings. *)
LoadedManifests == SelectSeq(ManifestFiles(K8sDir), LAMBDA f : f.valid)

LacksName(doc) ==
    \/ ~HasKey(doc, k_metadata)
    \/ LET m == GetItem(doc, k_metadata)
       IN  \/ m.tag = "none"
           \/ IsDict(m) /\ ~HasKey(m, k_name)

HasName(doc) ==
    /\ HasKey(doc, k_metadata)
    /\ IsDict(GetItem(doc, k_metadata))
    /\ HasKey(GetItem(doc, k_metadata), k_name)
    /\ GetItem(GetItem(doc, k_metadata), k_name).tag = "str"

(* "<kind>/<name>" with Unknown for a missing kind, unnamed for a missing name *)
DefaultedLine(doc) ==
    "- " \o BQ
    \o (IF HasKey(doc, k_kind) THEN Join(GetItem(doc, k_kind).items) ELSE "Unknown")
    \o "/"
    \o (IF LacksName(doc) THEN "unnamed"
        ELSE Join(GetItem(GetItem(doc, k_metadata), k_name).items))
    \o BQ

(* C5: every mapping document of every manifest file gets its bullet, with *)
(* Unknown for a missing kind and unnamed for a missing metadata.name       *)
(* (no metadata, metadata without a name, metadata empty or null); the      *)
(* run does not fail on it and no document of the file is lost.             *)
C5_ManifestDefaults ==
    /\ failedAt # "k8sdoc"
    /\ pc \in {"write", "done"} =>
           \A i \in DOMAIN LoadedManifests :
               LET docs == LoadedManifests[i].parsed.items
               IN  \A j \in DOMAIN docs :
                       (IsDict(docs[j]) /\ (LacksName(docs[j]) \/ HasName(docs[j]))) =>
                           \E n \in DOMAIN new_content : new_content[n] = DefaultedLine(docs[j])

(* The module directories that hold a .tf file which does not parse. *)
MalformedDirs ==
    SelectSeq(ModulesDir.entries,
              LAMBDA e : e.isdir /\ \E i \in DOMAIN e.files :
                             EndsWith(e.files[i].name, ext_tf) /\ ~e.files[i].valid)

(* The identifiers of the files of a module that parse, in listing order. *)
WellFormedIds(dir) ==
    LET good == SelectSeq(TfFiles(dir.files), LAMBDA f : f.valid)
    IN  Flatten([i \in DOMAIN good |-> ExtractResources(good[i].parsed).val])

(* C6: in a module with a .tf file that does not parse, that file counts   *)
(* as an empty mapping, the module's resources are those of its files that  *)
(* parse, whichever is read first, and the run raises nothing: it ends      *)
(* with the README written (a README that cannot be read is the one         *)
(* other way it ends).                                                      *)
C6_MalformedTolerated ==
    \A d \in DOMAIN MalformedDirs :
        LET dir == MalformedDirs[d]
            tf == TfFiles(dir.files)
        IN  /\ Ended => (pc = "done" \/ failedAt = "read")
            /\ (IsB /\ pc \notin {"analyze_tf", "failed"}) =>
                   \E i \in DOMAIN terraform_modules :
                       /\ terraform_modules[i].name = dir.name
                       /\ terraform_modules[i].resources = WellFormedIds(dir)
            /\ (IsA /\ pc \notin {"read", "analyze", "failed"}) =>
                   \E i \in DOMAIN terraform_modules :
                       /\ terraform_modules[i].name = dir.name
                       /\ Len(terraform_modules[i].configs) = Len(tf)
                       /\ \A j \in DOMAIN tf :
                              ~tf[j].valid =>
                                  /\ IsDict(terraform_modules[i].configs[j])
                                  /\ Len(terraform_modules[i].configs[j].items) = 0
            /\ pc = "done" =>
                   Contains(readme.text,
                            Heading3(dir.name)
                            \o BulletGroup("**Resources:**", Bullets(WellFormedIds(dir)))
                            \o (IF IsA THEN <<K8S_HEADER>> ELSE <<>>))

(* The README is written after a run over a module whose first file does   *)
(* not parse and whose last file declares t.a and t.b.                      *)
C6_Witness ==
    /\ project = "malformed_first"
    /\ pc = "done"
    /\ \E i \in DOMAIN readme.text : readme.text[i] = "- " \o BQ \o "t.b" \o BQ

TitleHead == <<"# GKE Cluster with Terraform", NL, NL>> \o MARKER \o <<NL>>

(* C7 as the specification states it: a README that cannot be read (there  *)
(* is none, or there is one that cannot be opened or read) counts as no     *)
(* earlier content; the run goes on and what it writes starts with the      *)
(* default title.                                                           *)
C7_UnreadableRecovered ==
    before[run].state # "present" =>
        /\ failedAt # "read"
        /\ pc = "done" => IsPrefix(TitleHead, readme.text)

(* C7, amended: a README that does not exist counts as the default title    *)
(* and the run goes on; a README that exists and cannot be read ends the    *)
(* run with the exception open raised, and nothing is written.              *)
C7_MissingRecovered ==
    /\ before[run].state = "absent" =>
           /\ failedAt # "read"
           /\ pc = "done" => IsPrefix(TitleHead, readme.text)
    /\ before[run].state = "unreadable" =>
           /\ pc # "done"
           /\ readme = before[run]
           /\ failedAt = "read" => exc = "PermissionError"

(* A run that found no README has written one. *)
C7_Witness ==
    /\ before[run].state = "absent"
    /\ pc = "done"
    /\ readme.state = "present"

(* C8 as the specification states it: without the modules directory no     *)
(* run of either script completes.                                          *)
C8_MissingModulesFatal == ~ModulesDir.exists => pc # "done"

(* C8, amended: without the modules directory generate_diagrams.py ends at  *)
(* its first statement with FileNotFoundError and writes nothing;           *)
(* update_readme.py finds no module, goes on and writes the README.         *)
C8_MissingModules ==
    ~ModulesDir.exists =>
        /\ IsB => /\ pc \in {"analyze_tf", "failed"}
                  /\ pc = "failed" => (failedAt = "analyze_tf" /\ exc = "FileNotFoundError")
                  /\ readme = before[run]
        /\ IsA => /\ Ended => (pc = "done" \/ failedAt = "read")
                  /\ pc \notin {"read", "analyze", "failed"} => terraform_modules = <<>>

(* generate_diagrams.py has ended on the missing modules directory. *)
C8_Witness ==
    /\ ~ModulesDir.exists
    /\ IsB
    /\ pc = "failed"

HasImageRef(text) == \E i \in DOMAIN text : text[i] = IMAGE_REF

(* C9: the section a run writes holds the image reference when             *)
(* terraform-visual ended with exit code 0, and does not hold it when the   *)
(* program ended otherwise or could not be started; that step ends no run.  *)
C9_DiagramTool ==
    /\ failedAt # "diagram"
    /\ pc \in {"moduledoc", "k8sdoc", "write"} => (HasImageRef(new_content) <=> tool = "ok")
    /\ pc = "done" => (HasImageRef(GeneratedSection(readme.text)) <=> tool = "ok")

(* A README without the image reference is written after terraform-visual  *)
(* could not be started.                                                    *)
C9_Witness ==
    /\ tool = "missing"
    /\ pc = "done"
    /\ ~HasImageRef(readme.text)

(* C10: no node identifier of the Mermaid diagram holds '.' or '-'. *)
C10_NodeIdsSanitised ==
    \A i \in DOMAIN node_ids :
        \A j \in DOMAIN node_ids[i] : node_ids[i][j] \notin {".", "-"}

(* C11: the README is written by the last statement of update_readme and   *)
(* by no other: until a run is done the file is what it was when the run    *)
(* started, so a run that ends in an exception raised before that           *)
(* statement (the modules directory is missing, the README cannot be        *)
(* read, extraction or rendering raises on a parsed shape) leaves it as     *)
(* it was.                                                                  *)
C11_ReadmeUnchanged ==
    /\ pc # "done" => readme = before[run]
    /\ pc = "failed" => failedAt \in {"read", "analyze_tf", "moduledoc", "k8sdoc"}

(* A run over a README that exists has ended in an exception raised while  *)
(* the module section was rendered, after the head of the new section was   *)
(* built.                                                                   *)
C11_Witness ==
    /\ pc = "failed"
    /\ failedAt = "moduledoc"
    /\ new_content # <<>>
    /\ readme.state = "present"

====
